---- MODULE Spec2Model ----
(***************************************************************************)
(* Barcode-triggered image transfer over a serial link.                    *)
(*                                                                         *)
(*   Serial_transmission.py  the camera node: scans for a barcode, filters *)
(*                           it (13 characters, not sent before) and writes*)
(*                           a frame: 4-byte little-endian length, the     *)
(*                           compressed image, the barcode text.           *)
(*   raspi_new.py            the host: OCRThread.run reassembles frames    *)
(*                           from the serial port and hands every complete *)
(*                           image to the OCR step.                        *)
(*                                                                         *)
(* Bytes are integers 0..255, byte strings and text are sequences of       *)
(* integers (text: code points).  Time is counted in units of 10 ms, the   *)
(* smallest duration the program uses (time.sleep(0.01)).                  *)
(***************************************************************************)
EXTENDS Integers, Sequences, FiniteSets, TLC

\* ------------------------------------------------------------------------
\* Program constants
\* ------------------------------------------------------------------------
\* len(code) != 13 (sender) and ser.read(13) (receiver).
IdLen == 13
\* ser.read(4) / to_bytes(4, 'little').
SizeLen == 4
\* min(2048, remaining).
ChunkCap == 2048
\* time.time() - start_time > 5, in units of 10 ms.
Timeout == 500
\* serial.Serial(..., timeout=1): a read blocks for at most 1 s.
ReadTimeout == 100
\* time.sleep(0.01).
SleepTime == 1

\* ------------------------------------------------------------------------
\* Bounds of the model
\* ------------------------------------------------------------------------
\* Length of the all-zero compressed image of the frame in flight.
ZeroPayloadLen == 4
\* Records the main window stores in a run.
MaxRecords == 4
\* Longest compressed image the camera produces.
MaxPayloadLen == 2
\* Frames the camera sends in a run of the whole system.
MaxFrames == 1
\* Largest step by which the clock advances while a read is blocked.
TickStep == 100

Min(a, b) == IF a < b THEN a ELSE b

\* "读取失败", the value of waybill when the identifier read fails.
WaybillSentinel == <<35835, 21462, 22833, 36133>>

\* Barcode texts the camera can decode: a 13-digit code, a 12-digit one, a
\* 14-digit one and a 13-character one whose last character is not ASCII.
CodeGood == <<49, 50, 51, 52, 53, 54, 55, 56, 57, 48, 49, 50, 51>>
CodeShort == <<49, 50, 51, 52, 53, 54, 55, 56, 57, 48, 49, 50>>
CodeLong == <<49, 50, 51, 52, 53, 54, 55, 56, 57, 48, 49, 50, 51, 52>>
CodeNonAscii == <<57, 56, 55, 54, 53, 52, 51, 50, 49, 48, 57, 56, 233>>
Codes == {CodeGood, CodeShort, CodeLong, CodeNonAscii}

\* Compressed images: one per length, byte i of an image is i - 1.
Payloads == {[i \in 1..n |-> i - 1] : n \in 0..MaxPayloadLen}

\* A compressed image whose bytes are all zero.
ZeroPayload == [i \in 1..ZeroPayloadLen |-> 0]

\* ------------------------------------------------------------------------
\* Pure functions
\* ------------------------------------------------------------------------
\* The length prefix written most significant byte first.
ToBytesBE(n) ==
    <<(n \div 16777216) % 256, (n \div 65536) % 256, (n \div 256) % 256, n % 256>>

\* len(img_compressed).to_bytes(4, 'little')
ToBytesLE(n) ==
    <<n % 256, (n \div 256) % 256, (n \div 65536) % 256, (n \div 16777216) % 256>>

\* int.from_bytes(size_bytes, 'little').  The value is lo + 2^24 * hi: two
\* limbs, because the checker's integers are 32 bits wide and Python's are not.
FromBytesLE(b) ==
    [lo |-> b[1] + 256 * b[2] + 65536 * b[3], hi |-> b[4]]

\* len(img_data) < img_size, for len < 2^24.
LenBelow(len, size) == size.hi > 0 \/ len < size.lo

\* The completeness test written as len(img_data) <= img_size.
LenEqualsLoose(len, size) == size.hi > 0 \/ len <= size.lo

\* len(img_data) == img_size, for len < 2^24.
LenEquals(len, size) == size.hi = 0 /\ len = size.lo

\* The request without the remaining count: ser.read(2048).
ChunkRequestCap(len, size) == ChunkCap

\* min(2048, img_size - len(img_data)), for len < img_size and len < 2^24.
ChunkRequest(len, size) ==
    IF size.hi > 0 THEN ChunkCap ELSE Min(ChunkCap, size.lo - len)

\* str -> bytes as uart.write(code) sends it (UTF-8, code points below 2048).
RECURSIVE Utf8(_)
Utf8(s) ==
    IF s = <<>> THEN <<>>
    ELSE (IF Head(s) < 128 THEN <<Head(s)>>
          ELSE <<192 + (Head(s) \div 64), 128 + (Head(s) % 64)>>) \o Utf8(Tail(s))

\* A decode that never fails (errors='ignore' style).
AsciiAlwaysOk(b) == TRUE

\* One pass of the payload loop that gets no byte: the read blocks for the
\* port's timeout, then the loop sleeps.
PollInterval == ReadTimeout + SleepTime

\* bytes.decode('ascii') succeeds iff every byte is below 128.
AsciiOk(b) == \A i \in 1..Len(b) : b[i] < 128

\* ------------------------------------------------------------------------
\* State
\* ------------------------------------------------------------------------
VARIABLES
    \* camera node (Serial_transmission.py)
    spc,             \* position in the main loop: "scan", "w_size", "w_img", "w_code"
    pre_code,        \* codes already sent, in order
    code,            \* barcode text of the frame being written
    img_compressed,  \* compressed image of the frame being written
    size_bytes,      \* its 4-byte length prefix
    writes,          \* history: every uart.write so far, [part, data]
    \* serial link
    wire,            \* bytes written by the camera, not yet at the host
    rxbuf,           \* bytes in the host's input buffer (len = ser.in_waiting)
    \* host (OCRThread.run)
    rpc,             \* position in run()
    running,         \* self.running
    img_size,        \* declared length of the frame in progress
    img_data,        \* accumulation buffer
    elapsed,         \* time.time() - start_time
    rwait,           \* how long the current ser.read has been blocked
    waybill,         \* identifier of the frame in progress
    status,          \* last status_updated signal
    dispatched,      \* history: (img_data, waybill) of every frame handed to the OCR step
    new_data,        \* new_data signal emitted by the last step of run(), if any
    timed_out,       \* history: some frame was abandoned on timeout
    is_open,         \* ser.is_open: the serial port is held by the host
    \* main window (ExpressTracker)
    data,            \* self.data, as written to express_data.json by save_data
    table            \* rows of self.table, each (name, phone, waybill)

sender_vars == <<spc, pre_code, code, img_compressed, size_bytes, writes>>
link_vars == <<wire, rxbuf>>
recv_vars == <<rpc, running, img_size, img_data, elapsed, rwait, waybill, status,
               dispatched, new_data, timed_out, is_open>>
ui_vars == <<data, table>>
vars == <<sender_vars, link_vars, recv_vars, ui_vars>>

\* Value of new_data when the last step emitted no new_data signal.
NoRecord == [name |-> <<>>, phone |-> "", text |-> <<>>, waybill |-> <<>>]

Init ==
    /\ spc = "scan"
    /\ pre_code = <<>>
    /\ code = <<>>
    /\ img_compressed = <<>>
    /\ size_bytes = <<>>
    /\ writes = <<>>
    /\ wire = <<>>
    /\ rxbuf = <<>>
    /\ rpc = "start"
    /\ running = TRUE
    /\ img_size = [lo |-> 0, hi |-> 0]
    /\ img_data = <<>>
    /\ elapsed = 0
    /\ rwait = 0
    /\ waybill = <<>>
    /\ status = "none"
    /\ dispatched = <<>>
    /\ new_data = NoRecord
    /\ timed_out = FALSE
    /\ is_open = FALSE
    /\ data = <<>>
    /\ table = <<>>

\* ------------------------------------------------------------------------
\* Camera node: Serial_transmission.py, while(True)
\* ------------------------------------------------------------------------
InPreCode(c) == \E i \in 1..Len(pre_code) : pre_code[i] = c

\* The filter without the `code in pre_code` test.
RejectedNoDedup(c) == Len(c) # IdLen

\* The filter without the length test.
RejectedNoLength(c) == InPreCode(c)

\* (code in pre_code) or (len(code) != 13)
Rejected(c) == InPreCode(c) \/ Len(c) # IdLen

\* uart.write(data): the bytes go onto the link in order.
UartWrite(part, buf) ==
    /\ wire' = wire \o buf
    /\ writes' = Append(writes, [part |-> part, data |-> buf])

\* One pass of the main loop up to pre_code.append(code): snapshot,
\* find_barcodes, code = barcodes[0].payload(), filter, compress.  No barcode:
\* next pass.  A rejected code: `continue`.
SenderScan ==
    /\ spc = "scan"
    /\ \/ UNCHANGED <<sender_vars, link_vars>>
       \/ \E c \in Codes, img \in Payloads :
            /\ code' = c
            /\ IF Rejected(c)
               THEN UNCHANGED <<spc, pre_code, img_compressed, size_bytes>>
               ELSE /\ img_compressed' = img
                    /\ size_bytes' = ToBytesLE(Len(img))
                    /\ pre_code' = Append(pre_code, c)
                    /\ spc' = "w_size"
            /\ UNCHANGED <<writes, link_vars>>
    /\ UNCHANGED <<recv_vars, ui_vars>>

\* uart.write(size_bytes)
SenderWriteSize ==
    /\ spc = "w_size"
    /\ UartWrite("size", size_bytes)
    /\ spc' = "w_img"
    /\ UNCHANGED <<pre_code, code, img_compressed, size_bytes, rxbuf, recv_vars, ui_vars>>

\* uart.write(img_compressed)
SenderWriteImg ==
    /\ spc = "w_img"
    /\ UartWrite("img", img_compressed)
    /\ spc' = "w_code"
    /\ UNCHANGED <<pre_code, code, img_compressed, size_bytes, rxbuf, recv_vars, ui_vars>>

\* uart.write(code), a str: its UTF-8 bytes; led.on(); back to the top
SenderWriteCode ==
    /\ spc = "w_code"
    /\ UartWrite("code", Utf8(code))
    /\ spc' = "scan"
    /\ UNCHANGED <<pre_code, code, img_compressed, size_bytes, rxbuf, recv_vars, ui_vars>>

\* ------------------------------------------------------------------------
\* Serial link: bytes arrive at the host one at a time, in order, at any moment
\* ------------------------------------------------------------------------
Deliver ==
    /\ wire # <<>>
    /\ rxbuf' = Append(rxbuf, Head(wire))
    /\ wire' = Tail(wire)
    /\ UNCHANGED <<sender_vars, recv_vars, ui_vars>>

\* ------------------------------------------------------------------------
\* Host: the OCR step (OCRThread.perform_ocr)
\* ------------------------------------------------------------------------
\* What reader.readtext returns, as a sequence of tokens: an 11-digit phone
\* number, a Chinese character, anything else.
PhoneToken == "13812345678"
HanToken == "Wang"
OcrTexts == {<<PhoneToken, HanToken>>, <<HanToken, PhoneToken>>}

\* The record perform_ocr returns from its except branch.
OcrErrorRecord ==
    [name |-> <<"OCR_error">>, phone |-> "OCR_error", text |-> <<>>,
     waybill |-> <<"not_provided">>]

\* Index of the first token of `text` after position `from` for which
\* `text[i] = tok`, 0 when there is none (pattern.search).
FirstAfter(text, from, tok) ==
    IF \E i \in (from + 1)..Len(text) : text[i] = tok
    THEN CHOOSE i \in (from + 1)..Len(text) :
            text[i] = tok /\ \A j \in (from + 1)..(i - 1) : text[j] # tok
    ELSE 0

\* perform_ocr once readtext has returned `text`.  `name` is assigned only
\* when a Chinese character is found; otherwise building the result raises
\* and the except branch returns the error record.
PerformOcr(text) ==
    LET phone_match == FirstAfter(text, 0, PhoneToken)
        first_chinese_match == FirstAfter(text, phone_match, HanToken)
    IN  IF first_chinese_match = 0
        THEN OcrErrorRecord
        ELSE [name |-> <<text[first_chinese_match], "*">>,
              phone |-> IF phone_match # 0 THEN text[phone_match] ELSE "no_phone",
              text |-> text,
              waybill |-> <<"not_provided">>]

\* ------------------------------------------------------------------------
\* Host: OCRThread.run
\* ------------------------------------------------------------------------
\* A port opened without a timeout: ser.read(n) returns only with n bytes.
ReadReturnsBlocking(n) == Len(rxbuf) >= n

\* ser.read(n) returns once n bytes are there or the port's timeout is up.
ReadReturns(n) == Len(rxbuf) >= n \/ rwait = ReadTimeout

\* What it returns: at most n bytes, fewer only after the timeout.
ReadResult(n) == SubSeq(rxbuf, 1, Min(n, Len(rxbuf)))

\* The input buffer after that read.
ReadRest(n) == SubSeq(rxbuf, Min(n, Len(rxbuf)) + 1, Len(rxbuf))

\* Bytes the read the host is blocked in has asked for.
Wanted ==
    CASE rpc = "read_size" -> SizeLen
      [] rpc = "read_chunk" -> ChunkRequest(Len(img_data), img_size)
      [] rpc = "read_id" -> IdLen
      [] OTHER -> 0

Blocked == rpc \in {"read_size", "read_chunk", "read_id"} /\ ~ReadReturns(Wanted)

\* Time passes while a read is blocked; start_time is only read in the
\* payload loop.
Tick ==
    /\ Blocked
    /\ LET d == Min(TickStep, ReadTimeout - rwait)
       IN  /\ rwait' = rwait + d
           /\ elapsed' = IF rpc = "read_chunk" THEN elapsed + d ELSE elapsed
    /\ UNCHANGED <<sender_vars, ui_vars, is_open, link_vars, rpc, running, img_size, img_data, waybill,
                   status, new_data, dispatched, timed_out>>

\* ser = serial.Serial(...); status "串口已连接"
RecvOpen ==
    /\ rpc = "start"
    /\ rpc' = "loop"
    /\ is_open' = TRUE
    /\ status' = "connected"
    /\ new_data' = NoRecord
    /\ UNCHANGED <<sender_vars, ui_vars, link_vars, running, img_size, img_data, elapsed, rwait,
                   waybill, dispatched, timed_out>>

\* The loop that never looks at the flag: while True.
RecvLoopForever ==
    /\ rpc = "loop"
    /\ IF Len(rxbuf) > 0 THEN rpc' = "read_size" ELSE rpc' = rpc
    /\ rwait' = 0
    /\ new_data' = NoRecord
    /\ UNCHANGED <<sender_vars, ui_vars, is_open, link_vars, running, img_size, img_data,
                   elapsed, waybill, status, dispatched, timed_out>>

\* while self.running: if ser.in_waiting: ...
RecvLoop ==
    /\ rpc = "loop"
    /\ IF ~running THEN rpc' = "closing"
       ELSE IF Len(rxbuf) > 0 THEN rpc' = "read_size"
       ELSE rpc' = rpc
    /\ rwait' = 0
    /\ new_data' = NoRecord
    /\ UNCHANGED <<sender_vars, ui_vars, is_open, link_vars, running, img_size, img_data, elapsed,
                   waybill, status, dispatched, timed_out>>

\* size_bytes = ser.read(4); a short read: continue.  Otherwise
\* img_size = int.from_bytes(...), img_data = bytearray(), start_time = now.
RecvReadSize ==
    /\ rpc = "read_size"
    /\ ReadReturns(SizeLen)
    /\ rxbuf' = ReadRest(SizeLen)
    /\ rwait' = 0
    /\ IF Len(ReadResult(SizeLen)) < SizeLen
       THEN /\ rpc' = "loop"
            /\ UNCHANGED <<img_size, img_data, elapsed>>
       ELSE /\ img_size' = FromBytesLE(ReadResult(SizeLen))
            /\ img_data' = <<>>
            /\ elapsed' = 0
            /\ rpc' = "check"
    /\ new_data' = NoRecord
    /\ UNCHANGED <<sender_vars, ui_vars, is_open, wire, running, waybill, status,
                   dispatched, timed_out>>

\* while len(img_data) < img_size: if time.time() - start_time > 5: emit, break
RecvCheck ==
    /\ rpc = "check"
    /\ IF LenBelow(Len(img_data), img_size)
       THEN IF elapsed > Timeout
            THEN /\ status' = "timeout"
                 /\ timed_out' = TRUE
                 /\ rpc' = "after"
            ELSE /\ rpc' = "read_chunk"
                 /\ UNCHANGED <<status, timed_out>>
       ELSE /\ rpc' = "after"
            /\ UNCHANGED <<status, timed_out>>
    /\ rwait' = 0
    /\ new_data' = NoRecord
    /\ UNCHANGED <<sender_vars, ui_vars, is_open, link_vars, running, img_size, img_data, elapsed,
                   waybill, dispatched>>

\* The payload read with an idle deadline: start_time = time.time() again
\* after every chunk that brought bytes.
RecvReadChunkIdle ==
    /\ rpc = "read_chunk"
    /\ LET n == ChunkRequest(Len(img_data), img_size)
       IN  /\ ReadReturns(n)
           /\ rxbuf' = ReadRest(n)
           /\ IF ReadResult(n) = <<>>
              THEN /\ elapsed' = elapsed + SleepTime
                   /\ UNCHANGED img_data
              ELSE /\ img_data' = img_data \o ReadResult(n)
                   /\ elapsed' = 0
    /\ rpc' = "check"
    /\ rwait' = 0
    /\ new_data' = NoRecord
    /\ UNCHANGED <<sender_vars, ui_vars, is_open, wire, running, img_size, waybill, status,
                   dispatched, timed_out>>

\* The payload read with a backoff of a whole second: time.sleep(1).
RecvReadChunkSleepLong ==
    /\ rpc = "read_chunk"
    /\ LET n == ChunkRequest(Len(img_data), img_size)
       IN  /\ ReadReturns(n)
           /\ rxbuf' = ReadRest(n)
           /\ IF ReadResult(n) = <<>>
              THEN /\ elapsed' = elapsed + 100 * SleepTime
                   /\ UNCHANGED img_data
              ELSE /\ img_data' = img_data \o ReadResult(n)
                   /\ UNCHANGED elapsed
    /\ rpc' = "check"
    /\ rwait' = 0
    /\ new_data' = NoRecord
    /\ UNCHANGED <<sender_vars, ui_vars, is_open, wire, running, img_size, waybill, status,
                   dispatched, timed_out>>

\* chunk = ser.read(min(2048, remaining)); empty: time.sleep(0.01), continue;
\* else img_data.extend(chunk)
RecvReadChunk ==
    /\ rpc = "read_chunk"
    /\ LET n == ChunkRequest(Len(img_data), img_size)
       IN  /\ ReadReturns(n)
           /\ rxbuf' = ReadRest(n)
           /\ IF ReadResult(n) = <<>>
              THEN /\ elapsed' = elapsed + SleepTime
                   /\ UNCHANGED img_data
              ELSE /\ img_data' = img_data \o ReadResult(n)
                   /\ UNCHANGED elapsed
    /\ rpc' = "check"
    /\ rwait' = 0
    /\ new_data' = NoRecord
    /\ UNCHANGED <<sender_vars, ui_vars, is_open, wire, running, img_size, waybill, status, dispatched,
                   timed_out>>

\* The end of the payload loop with the input buffer thrown away when the
\* frame is incomplete: ser.reset_input_buffer().
RecvAfterFlush ==
    /\ rpc = "after"
    /\ IF LenEquals(Len(img_data), img_size)
       THEN /\ status' = "received"
            /\ rpc' = "read_id"
            /\ UNCHANGED rxbuf
       ELSE /\ status' = "incomplete"
            /\ rpc' = "loop"
            /\ rxbuf' = <<>>
    /\ elapsed' = 0
    /\ new_data' = NoRecord
    /\ UNCHANGED <<sender_vars, ui_vars, is_open, wire, running, img_size, img_data, rwait,
                   waybill, dispatched, timed_out>>

\* if len(img_data) == img_size: status "接收到图像" ...
\* else: status "图像数据不完整"
RecvAfter ==
    /\ rpc = "after"
    /\ IF LenEquals(Len(img_data), img_size)
       THEN /\ status' = "received"
            /\ rpc' = "read_id"
       ELSE /\ status' = "incomplete"
            /\ rpc' = "loop"
    /\ elapsed' = 0
    /\ new_data' = NoRecord
    /\ UNCHANGED <<sender_vars, ui_vars, is_open, link_vars, running, img_size, img_data, rwait, waybill,
                   dispatched, timed_out>>

\* try: waybill = ser.read(13).decode('ascii') except: waybill = "读取失败";
\* the frame then enters the image/OCR step.
RecvReadId ==
    /\ rpc = "read_id"
    /\ ReadReturns(IdLen)
    /\ rxbuf' = ReadRest(IdLen)
    /\ rwait' = 0
    /\ IF AsciiOk(ReadResult(IdLen))
       THEN /\ waybill' = ReadResult(IdLen)
            /\ status' = "waybill"
       ELSE /\ waybill' = WaybillSentinel
            /\ status' = "waybill_error"
    /\ dispatched' = Append(dispatched, [payload |-> img_data, waybill |-> waybill'])
    /\ rpc' = "process"
    /\ new_data' = NoRecord
    /\ UNCHANGED <<sender_vars, ui_vars, is_open, wire, running, img_size, img_data,
                   elapsed, timed_out>>

\* try: Image.open, cvtColor, perform_ocr, result["waybill"] = waybill,
\* new_data.emit(result), status "OCR识别完成"
\* except: status "图像处理错误"
RecvProcess ==
    /\ rpc = "process"
    /\ \/ /\ status' = "image_error"
          /\ new_data' = NoRecord
       \/ \E r \in {PerformOcr(t) : t \in OcrTexts} \cup {OcrErrorRecord} :
            /\ new_data' = [r EXCEPT !.waybill = waybill]
            /\ status' = "ocr_done"
    /\ rpc' = "loop"
    /\ UNCHANGED <<sender_vars, ui_vars, is_open, link_vars, running, img_size, img_data, elapsed, rwait,
                   waybill, dispatched, timed_out>>

\* ser.close(); status "串口已关闭"
RecvClose ==
    /\ rpc = "closing"
    /\ rpc' = "done"
    /\ is_open' = FALSE
    /\ status' = "closed"
    /\ new_data' = NoRecord
    /\ UNCHANGED <<sender_vars, ui_vars, link_vars, running, img_size, img_data, elapsed, rwait,
                   waybill, dispatched, timed_out>>

\* OCRThread.stop, called from closeEvent
Stop ==
    /\ running
    /\ running' = FALSE
    /\ UNCHANGED <<sender_vars, ui_vars, is_open, link_vars, rpc, img_size, img_data, elapsed, rwait,
                   waybill, status, new_data, dispatched, timed_out>>

\* ------------------------------------------------------------------------
\* Host: a link call raises (serial.SerialException, OSError)
\* ------------------------------------------------------------------------
\* The outer handler of run(): except Exception: status "串口连接错误"; run()
\* returns.  ser.close() is on the other path only.
OuterExcept ==
    /\ rpc' = "failed"
    /\ status' = "link_error"
    /\ new_data' = NoRecord
    /\ UNCHANGED <<sender_vars, ui_vars, link_vars, is_open, running, img_size, img_data,
                   elapsed, rwait, waybill, dispatched, timed_out>>

\* serial.Serial(...) raises: the port was never opened.
RecvOpenRaises == rpc = "start" /\ OuterExcept

\* ser.in_waiting raises.
RecvLoopRaises == rpc = "loop" /\ running /\ OuterExcept

\* ser.read(4) raises.
RecvReadSizeRaises == rpc = "read_size" /\ OuterExcept

\* ser.read(min(2048, remaining)) raises.
RecvReadChunkRaises == rpc = "read_chunk" /\ OuterExcept

\* ser.read(13) raises: inside try ... except Exception of the identifier
\* read, so waybill = "读取失败", status "运单号读取错误", and the frame goes on
\* to the image/OCR step.
RecvReadIdRaises ==
    /\ rpc = "read_id"
    /\ waybill' = WaybillSentinel
    /\ status' = "waybill_error"
    /\ dispatched' = Append(dispatched, [payload |-> img_data, waybill |-> waybill'])
    /\ rpc' = "process"
    /\ rwait' = 0
    /\ new_data' = NoRecord
    /\ UNCHANGED <<sender_vars, ui_vars, link_vars, is_open, running, img_size, img_data,
                   elapsed, timed_out>>

\* ------------------------------------------------------------------------
\* Main window: ExpressTracker.add_new_data, search_data
\* ------------------------------------------------------------------------
\* Results the new_data signal carries, texts as code points: "王*" with the
\* phone 13812345678 and the waybill 1234567890123; the OCR error record
\* ("OCR错误") with the waybill "读取失败".
ResultWang ==
    [name |-> <<29579, 42>>,
     phone |-> <<49, 51, 56, 49, 50, 51, 52, 53, 54, 55, 56>>,
     waybill |-> CodeGood]
ResultOcrError ==
    [name |-> <<79, 67, 82, 38169, 35823>>,
     phone |-> <<79, 67, 82, 38169, 35823>>,
     waybill |-> WaybillSentinel]
Results == {ResultWang, ResultOcrError}

\* What the user types into the search box: nothing, " 138 ", "OCR", "x".
SearchInputs == {<<>>, <<32, 49, 51, 56, 32>>, <<79, 67, 82>>, <<120>>}

\* str.lower(), for ASCII letters.
Lower(t) == [i \in 1..Len(t) |-> IF t[i] \in 65..90 THEN t[i] + 32 ELSE t[i]]

\* str.strip(), for spaces.
Strip(t) ==
    LET ink == {i \in 1..Len(t) : t[i] # 32}
    IN  IF ink = {} THEN <<>>
        ELSE SubSeq(t, CHOOSE i \in ink : \A j \in ink : i <= j,
                       CHOOSE i \in ink : \A j \in ink : i >= j)

\* sub in t
Contains(t, sub) ==
    \E i \in 0..(Len(t) - Len(sub)) : SubSeq(t, i + 1, i + Len(sub)) = sub

\* The test of search_data on one item of self.data.
Matches(item, search_text) ==
    \/ Contains(Lower(item.name), search_text)
    \/ Contains(Lower(item.phone), search_text)
    \/ Contains(Lower(item.waybill), search_text)

\* for row in range(self.table.rowCount()): the three cells equal the entry
Shown(entry) == \E row \in 1..Len(table) : table[row] = entry

\* add_new_data(result): a record equal to a row of the table is dropped;
\* otherwise self.data.append, save_data, table.insertRow at the bottom.
AddNewData(result) ==
    /\ LET entry == [name |-> result.name, phone |-> result.phone,
                     waybill |-> result.waybill]
       IN  IF Shown(entry)
           THEN UNCHANGED <<data, table>>
           ELSE /\ data' = Append(data, entry)
                /\ table' = Append(table, entry)
    /\ UNCHANGED <<sender_vars, link_vars, recv_vars>>

\* search_data(): an empty search shows self.data, another one the items
\* that match (load_data_to_table).
SearchData(input) ==
    /\ LET search_text == Lower(Strip(input))
       IN  IF search_text = <<>>
           THEN table' = data
           ELSE table' = SelectSeq(data, LAMBDA item : Matches(item, search_text))
    /\ UNCHANGED <<data, sender_vars, link_vars, recv_vars>>

\* The window receives at most MaxRecords records it stores.
AddNewDataBounded == \E result \in Results : Len(data) < MaxRecords /\ AddNewData(result)

SearchDataAny == \E input \in SearchInputs : SearchData(input)

NextUI ==
    \/ AddNewDataBounded
    \/ SearchDataAny

SpecUI == Init /\ [][NextUI]_vars

\* The camera node sends at most MaxFrames frames.
SenderScanBounded == Len(pre_code) < MaxFrames /\ SenderScan

Next ==
    \/ SenderScanBounded
    \/ SenderWriteSize
    \/ SenderWriteImg
    \/ SenderWriteCode
    \/ Deliver
    \/ Tick
    \/ RecvOpen
    \/ RecvLoop
    \/ RecvReadSize
    \/ RecvCheck
    \/ RecvReadChunk
    \/ RecvAfter
    \/ RecvReadId
    \/ RecvProcess
    \/ RecvClose
    \/ Stop

Spec == Init /\ [][Next]_vars

\* The whole system on a port whose calls can fail.
NextFault ==
    \/ Next
    \/ RecvOpenRaises
    \/ RecvLoopRaises
    \/ RecvReadSizeRaises
    \/ RecvReadChunkRaises
    \/ RecvReadIdRaises

SpecFault == Init /\ [][NextFault]_vars

\* The host and the link, from the moment the camera has written one frame
\* (an all-zero image, a 13-digit code) and the host thread starts.
InitFrameSent ==
    /\ spc = "scan"
    /\ pre_code = <<CodeGood>>
    /\ code = CodeGood
    /\ img_compressed = ZeroPayload
    /\ size_bytes = ToBytesLE(Len(ZeroPayload))
    /\ writes = <<[part |-> "size", data |-> ToBytesLE(Len(ZeroPayload))],
                  [part |-> "img", data |-> ZeroPayload],
                  [part |-> "code", data |-> Utf8(CodeGood)]>>
    /\ wire = ToBytesLE(Len(ZeroPayload)) \o ZeroPayload \o Utf8(CodeGood)
    /\ rxbuf = <<>>
    /\ rpc = "start"
    /\ running = TRUE
    /\ img_size = [lo |-> 0, hi |-> 0]
    /\ img_data = <<>>
    /\ elapsed = 0
    /\ rwait = 0
    /\ waybill = <<>>
    /\ status = "none"
    /\ dispatched = <<>>
    /\ new_data = NoRecord
    /\ timed_out = FALSE
    /\ is_open = FALSE
    /\ data = <<>>
    /\ table = <<>>

NextHost ==
    \/ Deliver
    \/ Tick
    \/ RecvOpen
    \/ RecvLoop
    \/ RecvReadSize
    \/ RecvCheck
    \/ RecvReadChunk
    \/ RecvAfter
    \/ RecvReadId
    \/ RecvProcess
    \/ RecvClose
    \/ Stop

SpecHost == InitFrameSent /\ [][NextHost]_vars

\* The host thread is scheduled, time advances while a read is blocked, and
\* the image/OCR step returns.  Nothing obliges the link to deliver, nor the
\* window to be closed.
HostFairness ==
    /\ WF_vars(Tick)
    /\ WF_vars(RecvOpen)
    /\ WF_vars(RecvLoop)
    /\ WF_vars(RecvReadSize)
    /\ WF_vars(RecvCheck)
    /\ WF_vars(RecvReadChunk)
    /\ WF_vars(RecvAfter)
    /\ WF_vars(RecvReadId)
    /\ WF_vars(RecvProcess)
    /\ WF_vars(RecvClose)

SpecHostFair == SpecHost /\ HostFairness

\* The camera node and the link alone, every barcode it can see.
NextSender ==
    \/ SenderScan
    \/ SenderWriteSize
    \/ SenderWriteImg
    \/ SenderWriteCode
    \/ Deliver

SpecSender == Init /\ [][NextSender]_vars

\* ------------------------------------------------------------------------
\* Properties
\* ------------------------------------------------------------------------
\* Frames the camera has written completely.
FramesWritten == Len(writes) \div 3

\* The k-th frame as the camera framed it: its image, its barcode text.
SentFrame(k) == [payload |-> writes[3 * k - 1].data, waybill |-> pre_code[k]]

\* Every identifier sent so far is 13 bytes of ASCII.
AsciiFramesOnly ==
    \A k \in 1..Len(pre_code) : \A i \in 1..Len(pre_code[k]) : pre_code[k][i] <= 127

\* All bytes of a sequence of writes, in order.
RECURSIVE Bytes(_)
Bytes(ws) == IF ws = <<>> THEN <<>> ELSE Head(ws).data \o Bytes(Tail(ws))

\* Bytes the host has taken off the link.
Consumed == Len(Bytes(writes)) - Len(wire) - Len(rxbuf)

\* C1. Round trip: as long as no frame timed out, what the host hands to the
\* image/OCR step is, frame by frame, exactly the (image, 13-byte ASCII
\* identifier) the camera framed, however the bytes arrive.  Read when the
\* camera is between frames, so that every frame begun is on the link whole.
RoundTrip ==
    (~timed_out /\ AsciiFramesOnly /\ spc = "scan") =>
        /\ Len(dispatched) <= FramesWritten
        /\ \A k \in 1..Len(dispatched) : dispatched[k] = SentFrame(k)

\* C2. Fragmentation independence: once the host has taken every byte of the
\* frames written and is back at the top of its loop, it has delivered the
\* same frames, in number and content, as when each frame arrives in one
\* piece: every frame written, unchanged.
FragmentationIndependent ==
    (/\ ~timed_out /\ AsciiFramesOnly
     /\ spc = "scan" /\ wire = <<>> /\ rxbuf = <<>> /\ rpc = "loop") =>
        dispatched = [k \in 1..FramesWritten |-> SentFrame(k)]

\* C3 as stated. Once the deadline has passed with the buffer short of the
\* declared length the frame is aborted: no frame leaves the payload loop
\* complete after its deadline.
DeadlineAbort ==
    (rpc = "after" /\ elapsed > Timeout) => LenBelow(Len(img_data), img_size)

\* C3 as amended. When a deadline check of the payload loop finds more than
\* 5 s elapsed with the buffer short, the host emits the timeout status,
\* reads no identifier, hands no frame on and goes back to the top of its
\* loop; the next frame starts from an empty buffer.
TimeoutAbort ==
    [][/\ (rpc = "check" /\ rpc' # "check" /\ elapsed > Timeout
              /\ LenBelow(Len(img_data), img_size)) =>
            (/\ status' = "timeout" /\ rpc' = "after"
             /\ rxbuf' = rxbuf /\ dispatched' = dispatched /\ img_data' = img_data)
       /\ (rpc = "after" /\ rpc' # "after" /\ status = "timeout") =>
            (/\ rpc' = "loop" /\ status' = "incomplete"
             /\ rxbuf' = rxbuf /\ dispatched' = dispatched)
       /\ (rpc = "read_size" /\ rpc' = "check") => img_data' = <<>>
      ]_vars

\* A frame with a 2-byte image of which one byte arrived, abandoned on timeout.
TimeoutAbortWitness ==
    /\ rpc = "loop" /\ status = "incomplete" /\ timed_out
    /\ img_size = [lo |-> 2, hi |-> 0] /\ Len(img_data) = 1
    /\ Consumed = SizeLen + 1 /\ dispatched = <<>>

\* C4. Dedup: no identifier is in the dedup list twice, every write belongs
\* to the frame of an identifier in the list (so each identifier is sent in
\* at most one frame), and the list only grows.
Dedup ==
    /\ [](/\ \A i, j \in 1..Len(pre_code) : i # j => pre_code[i] # pre_code[j]
          /\ Len(writes) <= 3 * Len(pre_code)
          /\ \A k \in 1..Len(writes) :
                writes[k].part = "code" => writes[k].data = Utf8(pre_code[(k + 2) \div 3]))
    /\ [][/\ Len(pre_code') >= Len(pre_code)
          /\ SubSeq(pre_code', 1, Len(pre_code)) = pre_code]_vars

\* The camera sees a code again after it sent it and another frame.
DedupWitness ==
    /\ spc = "scan" /\ code = CodeGood /\ Len(writes) = 6
    /\ pre_code = <<CodeGood, CodeNonAscii>>

\* C5. Length filter: a candidate whose length is not 13 causes no write and
\* no insertion, and no identifier in the dedup list has another length.
LengthMismatchRejected ==
    /\ [](\A i \in 1..Len(pre_code) : Len(pre_code[i]) = 13)
    /\ [][Len(code') # 13 => (writes' = writes /\ pre_code' = pre_code)]_vars

\* The camera has seen a 12-character code after sending a frame.
LengthMismatchWitness == code = CodeShort /\ spc = "scan" /\ Len(writes) = 3

\* C6. Frame order: the writes are size, image, identifier, again and again;
\* the size is the little-endian byte count of the image that follows, the
\* image is whole, the identifier is the frame's; a frame is begun only when
\* the one before is written; the link carries the bytes in that order.
FrameOrder ==
    /\ \A k \in 1..Len(writes) :
          writes[k].part = <<"size", "img", "code">>[((k - 1) % 3) + 1]
    /\ 3 * (Len(pre_code) - 1) <= Len(writes) /\ Len(writes) <= 3 * Len(pre_code)
    /\ \A f \in 1..Len(pre_code) :
          LET base == 3 * (f - 1)
              image == IF base + 2 <= Len(writes) THEN writes[base + 2].data
                       ELSE img_compressed
              size == writes[base + 1].data
          IN  /\ base + 1 <= Len(writes) =>
                    /\ Len(size) = 4
                    /\ size[1] + 256 * size[2] + 65536 * size[3] + 16777216 * size[4]
                          = Len(image)
              /\ (base + 2 <= Len(writes) /\ f = Len(pre_code)) => image = img_compressed
              /\ base + 3 <= Len(writes) => writes[base + 3].data = Utf8(pre_code[f])
    /\ (spc = "scan" \/ spc = "w_size") <=> Len(writes) % 3 = 0
    /\ rxbuf \o wire = Bytes(writes)

\* Two frames written, the first with a 2-byte image.
FrameOrderWitness ==
    /\ Len(writes) = 6 /\ spc = "scan" /\ Len(writes[2].data) = 2
    /\ Len(writes[5].data) = 1

\* C7. Identifier read: the read that follows a complete image takes exactly
\* 13 bytes off the link, and they are the identifier handed on.
IdentifierRead ==
    [][(rpc = "read_id" /\ rpc' = "process") =>
          /\ Len(rxbuf) - Len(rxbuf') = 13
          /\ (\A i \in 1..13 : rxbuf[i] <= 127) => waybill' = SubSeq(rxbuf, 1, 13)
      ]_vars

\* C8. Length read guard: the host starts the 4-byte length read only with at
\* least 4 bytes available, and takes nothing off the link while only 1 to 3
\* bytes are there.
LengthReadGuard ==
    [][/\ (rpc = "loop" /\ rpc' = "read_size") => Len(rxbuf) >= 4
       /\ (rpc \in {"loop", "read_size"} /\ Len(rxbuf) \in 1..3) =>
             Len(rxbuf') >= Len(rxbuf)
      ]_vars

\* C9. Identifier decode resilience: when the 13 bytes read after a complete
\* image are not ASCII, the host emits the decode-error status, takes the
\* sentinel as identifier, keeps the image and hands the frame on.
IdentifierDecodeResilience ==
    [][(/\ rpc = "read_id" /\ rpc' # "read_id"
        /\ \E i \in 1..(Len(rxbuf) - Len(rxbuf')) : rxbuf[i] > 127) =>
          /\ status' = "waybill_error"
          /\ waybill' = WaybillSentinel
          /\ img_data' = img_data
          /\ rpc' = "process"
          /\ dispatched' = Append(dispatched, [payload |-> img_data,
                                               waybill |-> WaybillSentinel])
      ]_vars

\* The frame with the non-ASCII barcode, image complete, handed on with the
\* sentinel.
IdentifierDecodeWitness ==
    /\ rpc = "process" /\ status = "waybill_error" /\ ~timed_out
    /\ pre_code = <<CodeNonAscii>> /\ Len(writes) = 3
    /\ img_data = writes[2].data /\ Len(img_data) = 2
    /\ dispatched = <<[payload |-> img_data, waybill |-> WaybillSentinel]>>

\* C10. Downstream decode failure: whatever happens in the image/OCR step, it
\* ends with a new_data record carrying the frame's identifier.
DownstreamFailureRecord ==
    [][(rpc = "process" /\ rpc' # "process") =>
          (new_data' # NoRecord /\ new_data'.waybill = waybill)]_vars

\* C11 as stated. Wall-clock deadline: once more than 5 s have passed since
\* the start of the payload phase with the payload incomplete, the frame is
\* aborted: from then on the payload phase stays incomplete until the timeout
\* status ends it.
DeadlineFixedOnce ==
    [][(/\ rpc \in {"check", "read_chunk"} /\ elapsed > Timeout
        /\ LenBelow(Len(img_data), img_size)) =>
          \/ /\ rpc' \in {"check", "read_chunk"}
             /\ LenBelow(Len(img_data'), img_size')
          \/ rpc' = "after" /\ status' = "timeout"
      ]_vars

\* C11 as amended. The clock of the payload phase starts when the length
\* prefix is decoded and nothing in the payload phase sets it back, bytes
\* arriving included; no read starts after more than 5 s with the payload
\* incomplete: the deadline check before it ends the frame with the timeout
\* status, whatever the reads before it returned.
WallClockDeadline ==
    [][/\ (rpc \in {"check", "read_chunk"} /\ rpc' \in {"check", "read_chunk", "after"})
            => elapsed' >= elapsed
       /\ (rpc = "read_size" /\ rpc' = "check") => elapsed' = 0
       /\ (rpc = "check" /\ rpc' = "read_chunk") => elapsed <= Timeout
       /\ (rpc = "check" /\ rpc' = "after" /\ LenBelow(Len(img_data), img_size))
            => (elapsed > Timeout /\ status' = "timeout")
      ]_vars

\* A frame abandoned after six reads of 1 s that brought one byte each: a read
\* that comes back short lasts 1 s, an empty one costs 10 ms more, so 6.00 s
\* with 6 bytes is six reads, none of them empty.
WallClockWitness ==
    /\ rpc = "after" /\ status = "timeout"
    /\ elapsed = 6 * ReadTimeout /\ Len(img_data) = 6

\* C12. Timeout bound: a frame is given up on timeout more than 5 s and at
\* most 5 s plus one poll interval after its payload phase began, and the
\* payload phase never lasts longer; the host is then back at the top of its
\* loop, which it leaves while running only to read a length prefix from the
\* bytes that are there.
TimeoutBound ==
    /\ [](rpc \in {"check", "read_chunk"} => elapsed <= Timeout + PollInterval)
    /\ [][/\ (rpc = "check" /\ status' = "timeout" /\ rpc' = "after") =>
                (Timeout < elapsed /\ elapsed <= Timeout + PollInterval)
          /\ (rpc = "after" /\ status = "timeout" /\ rpc' # "after") => rpc' = "loop"
          /\ (rpc = "loop" /\ rpc' # "loop" /\ running) =>
                (rpc' = "read_size" /\ Len(rxbuf) > 0)
         ]_vars

\* A 2-byte image of which one byte came: given up on timeout, and the host
\* is reading the next length prefix.
TimeoutBoundWitness ==
    /\ rpc = "read_size" /\ status = "incomplete" /\ timed_out
    /\ img_size = [lo |-> 2, hi |-> 0] /\ Len(img_data) = 1

\* A link call of the receive loop raises: the availability poll, the length
\* read, the payload read or the identifier read.
LinkCallRaises ==
    RecvLoopRaises \/ RecvReadSizeRaises \/ RecvReadChunkRaises \/ RecvReadIdRaises

\* C13. Link failure is fatal: a link call that raises ends the receive loop
\* with the link error status; the frame in hand is not carried on, and a
\* loop that ended stays ended.
LinkFailureFatal ==
    [][/\ LinkCallRaises =>
            (rpc' = "failed" /\ status' = "link_error" /\ dispatched' = dispatched)
       /\ rpc = "failed" => rpc' = "failed"
      ]_vars

\* C14. Port release: once run() has ended, by a stop request or by a link
\* failure, the host no longer holds the port.
PortReleased == rpc \in {"done", "failed"} => ~is_open

\* A read of the serial port by run().
LinkRead == RecvReadSize \/ RecvReadChunk \/ RecvReadId

\* C15. Decode does not block draining: while the image/OCR step of a frame
\* is in progress and bytes are waiting on the port, the host can read them.
DecodeDoesNotBlockDraining ==
    (rpc = "process" /\ rxbuf # <<>>) => ENABLED LinkRead

\* C16. No resynchronization after timeout: between giving a frame up and the
\* next length read the host drops no byte, and the length read takes the
\* next 4 unread bytes as the prefix whatever they are; so bytes of the frame
\* given up are decoded as a length, and what follows them is handed on as a
\* frame.
NoResync ==
    [][/\ (rpc \in {"check", "after", "loop"}) =>
            \/ rxbuf' = rxbuf
            \/ wire # <<>> /\ rxbuf' = Append(rxbuf, Head(wire))
       /\ (rpc = "read_size" /\ rpc' = "check") =>
            /\ Len(rxbuf) >= SizeLen
            /\ img_size' = FromBytesLE(SubSeq(rxbuf, 1, SizeLen))
            /\ rxbuf' = SubSeq(rxbuf, SizeLen + 1, Len(rxbuf))
       /\ (rpc = "read_id" /\ rpc' = "process") =>
            dispatched' = Append(dispatched, [payload |-> img_data, waybill |-> waybill'])
      ]_vars

\* The frame (4 zero bytes, "1234567890123") was given up on timeout before
\* any of its image arrived; the image bytes, arriving late, were read as the
\* length prefix 0, and the pair (empty image, "1234567890123"), which the
\* camera never framed, went to the OCR step.
NoResyncWitness ==
    /\ timed_out /\ rpc = "process"
    /\ img_size = [lo |-> 0, hi |-> 0]
    /\ Consumed = SizeLen + ZeroPayloadLen + IdLen
    /\ dispatched = <<[payload |-> <<>>, waybill |-> CodeGood]>>
    /\ dispatched[1] # SentFrame(1)

\* Positions of run() inside a frame cycle: from the length read to the end
\* of the image/OCR step.
InCycle == rpc \in {"read_size", "check", "read_chunk", "after", "read_id", "process"}

\* C17. Cycle liveness: a frame cycle that has begun comes back to the top of
\* the receive loop, whatever length was decoded.
CycleLiveness == InCycle ~> (rpc = "loop")

\* Back at the top of the loop from a frame whose decoded length, at least
\* 2^24, is more than the link ever carries: it was given up on timeout.
CycleLivenessWitness ==
    /\ rpc = "loop" /\ status = "incomplete" /\ timed_out
    /\ img_size.hi > 0 /\ wire = <<>> /\ rxbuf = <<>>

\* C18. Accumulation bound: the buffer never holds more than the declared
\* length; a payload read takes at most min(2048, declared length - bytes
\* held) bytes off the port, all of them go to the buffer, and what else is
\* waiting (the identifier, the next frame) stays on the port.
AccumulationBound ==
    /\ [](LenBelow(Len(img_data), img_size) \/ LenEquals(Len(img_data), img_size))
    /\ [][(rpc = "read_chunk" /\ rpc' = "check") =>
            LET took == Len(rxbuf) - Len(rxbuf')
            IN  /\ 0 <= took /\ took <= ChunkCap
                /\ img_size.hi = 0 => took <= img_size.lo - Len(img_data)
                /\ img_data' = img_data \o SubSeq(rxbuf, 1, took)
                /\ rxbuf' = SubSeq(rxbuf, took + 1, Len(rxbuf))
         ]_vars

\* The 2-byte image of a frame is complete, read while the whole identifier
\* was already waiting behind it: the identifier is still on the port.
AccumulationBoundWitness ==
    /\ rpc = "check" /\ ~timed_out /\ Consumed = SizeLen + 2
    /\ img_size = [lo |-> 2, hi |-> 0] /\ img_data = img_compressed
    /\ Len(img_data) = 2 /\ rxbuf = Utf8(code) /\ Len(code) = IdLen

\* C19. Record-store duplicate suppression: self.data, and so the file
\* written from it, never holds the same (name, phone, waybill) twice.
NoDuplicateRecords ==
    \A i, j \in 1..Len(data) : i # j => data[i] # data[j]

\* C20. Stop liveness: once stop() has cleared the flag, run() ends with the
\* port closed; a frame cycle in progress is not cut short (the loop is left
\* from its top only), and from the top of the loop the host then goes to
\* ser.close() and nowhere else.
StopLiveness ==
    /\ ~running ~> (rpc = "done" /\ ~is_open)
    /\ [][/\ (~running /\ rpc = "loop" /\ rpc' # "loop") => rpc' = "closing"
          /\ (rpc # "closing" /\ rpc' = "closing") => (rpc = "loop" /\ ~running)
          /\ (rpc = "closing" /\ rpc' # "closing") => (rpc' = "done" /\ ~is_open')
          /\ ~running => ~running'
         ]_vars

\* run() has ended after a stop request, the port is closed, and the frame
\* was handed to the OCR step before that.
StopLivenessWitness ==
    /\ rpc = "done" /\ ~running /\ ~is_open /\ status = "closed"
    /\ Len(dispatched) = 1 /\ wire = <<>>

====
